---- MODULE Spec2Model ----
(***************************************************************************)
(* Model of round_robin_model_runners (src/stylepipeline.py): one worker   *)
(* thread per runner (model_run), the dispatcher thread (push_run), the    *)
(* collector thread (pull_run) and the calling thread, which joins them.   *)
(* Threads communicate through unbounded FIFO queues (queue.Queue()).      *)
(***************************************************************************)
EXTENDS Integers, Sequences, FiniteSets

\* ------------------------------------------------------------------ bounds
\* largest number of runners in `order`
MaxW == 3
\* largest number of items the caller puts on the shared input queue
MaxSubmit == 5
\* number of device names
MaxDev == 3
\* number of distinct raw images
MaxRaw == 3
\* largest count of encoder stage invocations followed
MaxEncCalls == 4
\* largest number of names given to --style_devices
MaxDevArgs == 2
\* number of distinct style paths
MaxPaths == 2
\* largest number of style paths in the config
MaxStyles == 3

\* ------------------------------------------------------------------ values
\* class Halt: the sentinel, compared with == against every dequeued item
Halt == [id |-> 0, kind |-> "Halt"]

\* kinds of job: "ok" has both keyword parameters of apply, "bad" lacks one
JobKinds == {"ok", "bad"}

\* the n-th item the caller submits, as a job of the given kind
Job(n, k) == [id |-> n, kind |-> k]

\* ModelRunner.apply(**job) on a well-formed job: the value put on the queue
Apply(job) == [id |-> job.id, kind |-> "result"]

\* apply(**job) raises TypeError when a required keyword parameter is missing
ApplyRaises(job) == job.kind = "bad"

\* torch.device(name) of a --style_devices name; names are numbered
TorchDevice(name) == [type |-> "cuda", index |-> name]

\* the device of a tensor made by torchvision's to_tensor
CpuDevice == [type |-> "cpu", index |-> 0]

\* a tensor: what it holds (a raw image, relu4_1 or relu5_1 features of one),
\* of which image, and the device it lives on
RawTensor(r, dev) == [stage |-> "raw", data |-> r, device |-> dev]

NoTensor == [stage |-> "none", data |-> 0, device |-> CpuDevice]

\* torch.as_tensor(t, device=dev).detach(): the same data on dev
AsTensor(t, dev) == [t EXCEPT !.device = dev]

\* self.enc_1_to_4(t.unsqueeze(0)): input -> relu4_1
Enc1to4(t) ==
    [stage |-> IF t.stage = "raw" THEN "relu4_1" ELSE "garbage",
     data |-> t.data, device |-> t.device]

\* self.enc_5(e4): relu4_1 -> relu5_1
Enc5(t) ==
    [stage |-> IF t.stage = "relu4_1" THEN "relu5_1" ELSE "garbage",
     data |-> t.data, device |-> t.device]

\* EncodedFrame(e4, e5)
EncodedFrame(e4, e5) == [e4 |-> e4, e5 |-> e5]

NoFrame == EncodedFrame(NoTensor, NoTensor)

\* isinstance(source, EncodedFrame)
IsEncodedFrame(source) == "e4" \in DOMAIN source

\* mutant of EncodeFrame: the isinstance test is missing, every source is
\* taken for a raw tensor and run through the encoder stages
EncodeFrameNoReuse(dev, source) ==
    LET t == IF IsEncodedFrame(source) THEN source.e4 ELSE source
        e4 == Enc1to4(AsTensor(t, dev))
        e5 == Enc5(e4)
    IN  [frame |-> EncodedFrame(e4, e5), calls |-> 2]

\* mutant of EncodeFrame: a frame of another device is returned as it is
EncodeFrameNoMigrate(dev, source) ==
    IF IsEncodedFrame(source)
       THEN [frame |-> source, calls |-> 0]
       ELSE LET e4 == Enc1to4(AsTensor(source, dev))
                e5 == Enc5(e4)
            IN  [frame |-> EncodedFrame(e4, e5), calls |-> 2]

\* StyleRunner.encode_frame on a runner of device dev: the EncodedFrame it
\* returns and the number of encoder stages it invokes
EncodeFrame(dev, source) ==
    IF IsEncodedFrame(source)
       THEN IF source.e4.device = dev
               THEN [frame |-> source, calls |-> 0]
               ELSE [frame |-> EncodedFrame(AsTensor(source.e4, dev),
                                            AsTensor(source.e5, dev)),
                     calls |-> 0]
       ELSE LET e4 == Enc1to4(AsTensor(source, dev))
                e5 == Enc5(e4)
            IN  [frame |-> EncodedFrame(e4, e5), calls |-> 2]

VARIABLES
    W,                     \* len(order)
    input_queue,           \* shared input queue
    output_queue,          \* shared output queue
    thread_input_queues,   \* per worker input queue
    thread_output_queues,  \* per worker output queue
    wpc,                   \* per worker: "idle", "running", "done", "dead"
    wjob,                  \* per worker: the local variable job
    pushpc,                \* dispatcher: "run", "done"
    push_idx,              \* dispatcher: idx
    pullpc,                \* collector: "start", "loop", "done", "crashed"
    pull_idx,              \* collector: idx
    qs,                    \* collector: the list qs (worker numbers)
    mainpc,                \* caller: "join_push", "join_runners", "join_pull", "returned"
    joined,                \* caller: number of runner threads joined so far
    submitted,             \* history: every item put on input_queue
    inHist,                \* history: every item put on each worker input queue
    outHist,               \* history: every item put on each worker output queue
    outAll,                \* history: every item put on output_queue
    enc_device,            \* StyleRunner: self.device of the runner under call
    enc_calls,             \* StyleRunner: invocations of enc_1_to_4 and enc_5 so far
    enc_source,            \* encode_frame: the argument of the last call
    enc_result,            \* encode_frame: the value the last call returned
    enc_pc,                \* encode_frame: "idle" before the first call, then "returned"
    argv_devices,          \* main: args.style_devices
    cfg_styles,            \* main: style_config["styles"]
    style_runners,         \* main: names of the runners created and loaded
    style_device_map,      \* main: style path -> (device name -> EncodedFrame)
    style_i,               \* main: styles of the config handled so far
    startpc                \* main: "runners", "styles", "done"; "off" outside main

\* the state of round_robin_model_runners
pipeVars == <<W, input_queue, output_queue, thread_input_queues, thread_output_queues,
              wpc, wjob, pushpc, push_idx, pullpc, pull_idx, qs, mainpc, joined,
              submitted, inHist, outHist, outAll>>

\* the state of a StyleRunner under calls of encode_frame
encVars == <<enc_device, enc_calls, enc_source, enc_result, enc_pc>>

\* the state of main
startVars == <<argv_devices, cfg_styles, style_runners, style_device_map, style_i, startpc>>

vars == <<pipeVars, encVars, startVars>>

Workers == 0 .. (W - 1)

NoJob == [id |-> 0, kind |-> "none"]

\* ------------------------------------------------------------------ helpers
\* qs = thread_output_queues[:] , the list of the worker output queues
CopyOfOutputQueues(n) == [i \in 1 .. n |-> i - 1]

\* mutant of NextPushIdx: the rotation index is never advanced
NextPushIdxStuck(idx, n) == idx

\* (idx + 1) % len(thread_input_queues)
NextPushIdx(idx, n) == (idx + 1) % n

\* ------------------------------------------------------------------ Init
PipeInit ==
    /\ W \in 1 .. MaxW
    /\ input_queue = << >>
    /\ output_queue = << >>
    /\ thread_input_queues = [w \in 0 .. (W - 1) |-> << >>]
    /\ thread_output_queues = [w \in 0 .. (W - 1) |-> << >>]
    /\ wpc = [w \in 0 .. (W - 1) |-> "idle"]
    /\ wjob = [w \in 0 .. (W - 1) |-> NoJob]
    /\ pushpc = "run"
    /\ push_idx = 0
    /\ pullpc = "start"
    /\ pull_idx = 0
    /\ qs = << >>
    /\ mainpc = "join_push"
    /\ joined = 0
    /\ submitted = << >>
    /\ inHist = [w \in 0 .. (W - 1) |-> << >>]
    /\ outHist = [w \in 0 .. (W - 1) |-> << >>]
    /\ outAll = << >>

\* no StyleRunner is under call
EncOff ==
    /\ enc_device = CpuDevice
    /\ enc_calls = 0
    /\ enc_source = NoTensor
    /\ enc_result = NoFrame
    /\ enc_pc = "idle"

\* main is not running
StartOff ==
    /\ argv_devices = << >>
    /\ cfg_styles = << >>
    /\ style_runners = {}
    /\ style_device_map = << >>
    /\ style_i = 0
    /\ startpc = "off"

\* round_robin_model_runners has started its threads
Init == PipeInit /\ EncOff /\ StartOff

\* ------------------------------------------------------------------ caller
\* the caller puts a job or Halt on the shared input queue
Submit ==
    /\ Len(submitted) < MaxSubmit
    /\ \E item \in {Halt} \cup {Job(Len(submitted) + 1, k) : k \in JobKinds} :
          /\ input_queue' = Append(input_queue, item)
          /\ submitted' = Append(submitted, item)
    /\ UNCHANGED <<encVars, startVars, W, output_queue, thread_input_queues, thread_output_queues,
                   wpc, wjob, pushpc, push_idx, pullpc, pull_idx, qs, mainpc,
                   joined, inHist, outHist, outAll>>

\* ------------------------------------------------------------------ model_run
\* runner_input.get times out: continue
model_run_empty(w) ==
    /\ wpc[w] = "idle"
    /\ thread_input_queues[w] = << >>
    /\ UNCHANGED vars

\* mutant of model_run_get: the next job is taken while apply is still running
model_run_get_pipelined(w) ==
    /\ wpc[w] \in {"idle", "running"}
    /\ thread_input_queues[w] # << >>
    /\ LET job == Head(thread_input_queues[w]) IN
          /\ thread_input_queues' =
                [thread_input_queues EXCEPT ![w] = Tail(thread_input_queues[w])]
          /\ IF job = Halt
                THEN /\ thread_output_queues' =
                          [thread_output_queues EXCEPT ![w] = Append(@, Halt)]
                     /\ outHist' = [outHist EXCEPT ![w] = Append(@, Halt)]
                     /\ wpc' = [wpc EXCEPT ![w] = "done"]
                     /\ UNCHANGED wjob
                ELSE /\ wjob' = [wjob EXCEPT ![w] = job]
                     /\ wpc' = [wpc EXCEPT ![w] = "running"]
                     /\ UNCHANGED <<thread_output_queues, outHist>>
    /\ UNCHANGED <<encVars, startVars, W, input_queue, output_queue, pushpc, push_idx, pullpc,
                   pull_idx, qs, mainpc, joined, submitted, inHist, outAll>>


\* mutant of model_run_apply: the exception raised by apply is caught and the
\* loop goes on with the next item
model_run_apply_swallows(w) ==
    /\ wpc[w] = "running"
    /\ IF ApplyRaises(wjob[w])
          THEN /\ wpc' = [wpc EXCEPT ![w] = "idle"]
               /\ UNCHANGED <<thread_output_queues, outHist>>
          ELSE /\ thread_output_queues' =
                    [thread_output_queues EXCEPT ![w] = Append(@, Apply(wjob[w]))]
               /\ outHist' = [outHist EXCEPT ![w] = Append(@, Apply(wjob[w]))]
               /\ wpc' = [wpc EXCEPT ![w] = "idle"]
    /\ UNCHANGED <<encVars, startVars, W, input_queue, output_queue, thread_input_queues, wjob,
                   pushpc, push_idx, pullpc, pull_idx, qs, mainpc, joined,
                   submitted, inHist, outAll>>


\* mutant of model_run_get: the worker takes the newest item of its input
\* queue instead of the oldest
model_run_get_newest(w) ==
    /\ wpc[w] = "idle"
    /\ thread_input_queues[w] # << >>
    /\ LET n == Len(thread_input_queues[w])
           job == thread_input_queues[w][n]
       IN
          /\ thread_input_queues' =
                [thread_input_queues EXCEPT ![w] = SubSeq(@, 1, n - 1)]
          /\ IF job = Halt
                THEN /\ thread_output_queues' =
                          [thread_output_queues EXCEPT ![w] = Append(@, Halt)]
                     /\ outHist' = [outHist EXCEPT ![w] = Append(@, Halt)]
                     /\ wpc' = [wpc EXCEPT ![w] = "done"]
                     /\ UNCHANGED wjob
                ELSE /\ wjob' = [wjob EXCEPT ![w] = job]
                     /\ wpc' = [wpc EXCEPT ![w] = "running"]
                     /\ UNCHANGED <<thread_output_queues, outHist>>
    /\ UNCHANGED <<encVars, startVars, W, input_queue, output_queue, pushpc, push_idx, pullpc,
                   pull_idx, qs, mainpc, joined, submitted, inHist, outAll>>

\* runner_input.get returns an item; Halt is forwarded and ends the loop
model_run_get(w) ==
    /\ wpc[w] = "idle"
    /\ thread_input_queues[w] # << >>
    /\ LET job == Head(thread_input_queues[w]) IN
          /\ thread_input_queues' =
                [thread_input_queues EXCEPT ![w] = Tail(thread_input_queues[w])]
          /\ IF job = Halt
                THEN /\ thread_output_queues' =
                          [thread_output_queues EXCEPT ![w] = Append(@, Halt)]
                     /\ outHist' = [outHist EXCEPT ![w] = Append(@, Halt)]
                     /\ wpc' = [wpc EXCEPT ![w] = "done"]
                     /\ UNCHANGED wjob
                ELSE /\ wjob' = [wjob EXCEPT ![w] = job]
                     /\ wpc' = [wpc EXCEPT ![w] = "running"]
                     /\ UNCHANGED <<thread_output_queues, outHist>>
    /\ UNCHANGED <<encVars, startVars, W, input_queue, output_queue, pushpc, push_idx, pullpc,
                   pull_idx, qs, mainpc, joined, submitted, inHist, outAll>>

\* model_runner.apply(**job) returns and its result is put on runner_output,
\* or it raises and the exception ends the thread
model_run_apply(w) ==
    /\ wpc[w] = "running"
    /\ IF ApplyRaises(wjob[w])
          THEN /\ wpc' = [wpc EXCEPT ![w] = "dead"]
               /\ UNCHANGED <<thread_output_queues, outHist>>
          ELSE /\ thread_output_queues' =
                    [thread_output_queues EXCEPT ![w] = Append(@, Apply(wjob[w]))]
               /\ outHist' = [outHist EXCEPT ![w] = Append(@, Apply(wjob[w]))]
               /\ wpc' = [wpc EXCEPT ![w] = "idle"]
    /\ UNCHANGED <<encVars, startVars, W, input_queue, output_queue, thread_input_queues, wjob,
                   pushpc, push_idx, pullpc, pull_idx, qs, mainpc, joined,
                   submitted, inHist, outAll>>

\* ------------------------------------------------------------------ push_run
\* input_queue.get times out: continue
push_run_empty ==
    /\ pushpc = "run"
    /\ input_queue = << >>
    /\ UNCHANGED vars

\* mutant of push_run_item: the test for Halt is missing, so a Halt is handed
\* to the worker at idx like a job and the loop goes on
push_run_item_no_halt_test ==
    /\ pushpc = "run"
    /\ input_queue # << >>
    /\ LET job == Head(input_queue) IN
          /\ input_queue' = Tail(input_queue)
          /\ thread_input_queues' =
                [thread_input_queues EXCEPT ![push_idx] = Append(@, job)]
          /\ inHist' = [inHist EXCEPT ![push_idx] = Append(@, job)]
          /\ push_idx' = (push_idx + 1) % W
          /\ UNCHANGED pushpc
    /\ UNCHANGED <<encVars, startVars, W, output_queue, thread_output_queues, wpc, wjob, pullpc,
                   pull_idx, qs, mainpc, joined, submitted, outHist, outAll>>


\* mutant of push_run_item: the dispatcher checks for liveness and hands the
\* job to the next worker that has not died
push_run_item_skips_dead ==
    /\ pushpc = "run"
    /\ input_queue # << >>
    /\ LET job == Head(input_queue)
           alive == {w \in Workers : wpc[w] # "dead"}
           to == IF alive = {} THEN push_idx
                 ELSE CHOOSE w \in alive :
                        \A v \in alive : (w - push_idx) % W <= (v - push_idx) % W
       IN
          /\ input_queue' = Tail(input_queue)
          /\ IF job = Halt
                THEN /\ pushpc' = "done"
                     /\ UNCHANGED <<thread_input_queues, inHist, push_idx>>
                ELSE /\ thread_input_queues' =
                          [thread_input_queues EXCEPT ![to] = Append(@, job)]
                     /\ inHist' = [inHist EXCEPT ![to] = Append(@, job)]
                     /\ push_idx' = (to + 1) % W
                     /\ UNCHANGED pushpc
    /\ UNCHANGED <<encVars, startVars, W, output_queue, thread_output_queues, wpc, wjob, pullpc,
                   pull_idx, qs, mainpc, joined, submitted, outHist, outAll>>

\* input_queue.get returns an item: Halt ends the loop, a job goes to the
\* worker at idx and idx advances
push_run_item ==
    /\ pushpc = "run"
    /\ input_queue # << >>
    /\ LET job == Head(input_queue) IN
          /\ input_queue' = Tail(input_queue)
          /\ IF job = Halt
                THEN /\ pushpc' = "done"
                     /\ UNCHANGED <<thread_input_queues, inHist, push_idx>>
                ELSE /\ thread_input_queues' =
                          [thread_input_queues EXCEPT ![push_idx] = Append(@, job)]
                     /\ inHist' = [inHist EXCEPT ![push_idx] = Append(@, job)]
                     /\ push_idx' = NextPushIdx(push_idx, W)
                     /\ UNCHANGED pushpc
    /\ UNCHANGED <<encVars, startVars, W, output_queue, thread_output_queues, wpc, wjob, pullpc,
                   pull_idx, qs, mainpc, joined, submitted, outHist, outAll>>

\* ------------------------------------------------------------------ pull_run
\* idx = 0; qs = thread_output_queues[:]
pull_run_start ==
    /\ pullpc = "start"
    /\ pull_idx' = 0
    /\ qs' = CopyOfOutputQueues(W)
    /\ pullpc' = "loop"
    /\ UNCHANGED <<encVars, startVars, W, input_queue, output_queue, thread_input_queues,
                   thread_output_queues, wpc, wjob, pushpc, push_idx, mainpc,
                   joined, submitted, inHist, outHist, outAll>>

\* while qs: result = qs.get(timeout=get_timeout).  qs is a list, which has no
\* attribute get: the call raises AttributeError, which the except clause for
\* queue.Empty does not catch, and the thread ends
pull_run_poll ==
    /\ pullpc = "loop"
    /\ pullpc' = IF qs = << >> THEN "done" ELSE "crashed"
    /\ UNCHANGED <<encVars, startVars, W, input_queue, output_queue, thread_input_queues,
                   thread_output_queues, wpc, wjob, pushpc, push_idx, pull_idx,
                   qs, mainpc, joined, submitted, inHist, outHist, outAll>>

\* ------------------------------------------------------------------ joins
\* a thread has ended (returned or died of an exception)
WorkerEnded(w) == wpc[w] \in {"done", "dead"}

\* push_thread.join()
join_push ==
    /\ mainpc = "join_push"
    /\ pushpc = "done"
    /\ mainpc' = "join_runners"
    /\ UNCHANGED <<encVars, startVars, W, input_queue, output_queue, thread_input_queues,
                   thread_output_queues, wpc, wjob, pushpc, push_idx, pullpc,
                   pull_idx, qs, joined, submitted, inHist, outHist, outAll>>

\* for t in runner_threads: t.join()
join_runner ==
    /\ mainpc = "join_runners"
    /\ IF joined < W
          THEN /\ WorkerEnded(joined)
               /\ joined' = joined + 1
               /\ UNCHANGED mainpc
          ELSE /\ mainpc' = "join_pull"
               /\ UNCHANGED joined
    /\ UNCHANGED <<encVars, startVars, W, input_queue, output_queue, thread_input_queues,
                   thread_output_queues, wpc, wjob, pushpc, push_idx, pullpc,
                   pull_idx, qs, submitted, inHist, outHist, outAll>>

\* pull_thread.join()
join_pull ==
    /\ mainpc = "join_pull"
    /\ pullpc \in {"done", "crashed"}
    /\ mainpc' = "returned"
    /\ UNCHANGED <<encVars, startVars, W, input_queue, output_queue, thread_input_queues,
                   thread_output_queues, wpc, wjob, pushpc, push_idx, pullpc,
                   pull_idx, qs, joined, submitted, inHist, outHist, outAll>>

\* ------------------------------------------------------------------ spec
Worker(w) == model_run_empty(w) \/ model_run_get(w) \/ model_run_apply(w)

Next ==
    \/ Submit
    \/ \E w \in Workers : model_run_empty(w)
    \/ \E w \in Workers : model_run_get(w)
    \/ \E w \in Workers : model_run_apply(w)
    \/ push_run_empty
    \/ push_run_item
    \/ pull_run_start
    \/ pull_run_poll
    \/ join_push
    \/ join_runner
    \/ join_pull

Spec == Init /\ [][Next]_vars

\* every started thread keeps being scheduled; the caller may stop submitting
FairSpec ==
    /\ Spec
    /\ \A w \in 0 .. (MaxW - 1) : WF_vars(w \in Workers /\ model_run_get(w))
    /\ \A w \in 0 .. (MaxW - 1) : WF_vars(w \in Workers /\ model_run_apply(w))
    /\ WF_vars(push_run_item)
    /\ WF_vars(pull_run_start)
    /\ WF_vars(pull_run_poll)
    /\ WF_vars(join_push)
    /\ WF_vars(join_runner)
    /\ WF_vars(join_pull)


\* as FairSpec, but apply on the first runner may never return: apply is an
\* opaque blocking call on which no timeout is enforced
StuckWorkerSpec ==
    /\ Spec
    /\ \A w \in 0 .. (MaxW - 1) : WF_vars(w \in Workers /\ model_run_get(w))
    /\ \A w \in 1 .. (MaxW - 1) : WF_vars(w \in Workers /\ model_run_apply(w))
    /\ WF_vars(push_run_item)
    /\ WF_vars(pull_run_start)
    /\ WF_vars(pull_run_poll)
    /\ WF_vars(join_push)
    /\ WF_vars(join_runner)
    /\ WF_vars(join_pull)

\* ------------------------------------------------------------------ encode_frame
DeviceNames == 1 .. MaxDev

\* raw tensors, on the cpu or on a device
RawTensors ==
    {RawTensor(r, d) : r \in 1 .. MaxRaw, d \in {CpuDevice} \cup {TorchDevice(n) : n \in DeviceNames}}

\* the EncodedFrames runners make of raw tensors
EncodedFrames ==
    {EncodeFrame(TorchDevice(n), RawTensor(r, CpuDevice)).frame : r \in 1 .. MaxRaw, n \in DeviceNames}

\* a loaded StyleRunner of some device, not yet called
EncInit ==
    /\ PipeInit
    /\ W = 1
    /\ StartOff
    /\ enc_device \in {TorchDevice(n) : n \in DeviceNames}
    /\ enc_calls = 0
    /\ enc_source = NoTensor
    /\ enc_result = NoFrame
    /\ enc_pc = "idle"

\* a call of self.encode_frame(source)
encode_frame ==
    /\ enc_calls + 2 <= MaxEncCalls
    /\ \E source \in RawTensors \cup EncodedFrames :
          LET r == EncodeFrame(enc_device, source) IN
          /\ enc_source' = source
          /\ enc_result' = r.frame
          /\ enc_calls' = enc_calls + r.calls
          /\ enc_pc' = "returned"
    /\ UNCHANGED <<pipeVars, startVars, enc_device>>

EncNext == encode_frame

EncSpec == EncInit /\ [][EncNext]_vars

\* ------------------------------------------------------------------ main
\* the sequences over S of length lo to hi
SeqsOf(S, lo, hi) == UNION {[1 .. n -> S] : n \in lo .. hi}

\* set(xs)
SetOf(xs) == {xs[i] : i \in 1 .. Len(xs)}

\* sorted(S)
RECURSIVE Sorted(_)
Sorted(S) ==
    IF S = {} THEN << >>
    ELSE LET m == CHOOSE x \in S : \A y \in S : x <= y
         IN  <<m>> \o Sorted(S \ {m})

\* style_devices: the names of sorted(set(args.style_devices)), in that order
StyleDevices == Sorted(SetOf(argv_devices))

\* load_image_for_style(path): the image of the path as a tensor on the cpu
LoadImageForStyle(path) == RawTensor(path, CpuDevice)

\* a style_device_map with no entry
EmptyMap == [p \in {} |-> << >>]

\* main has parsed its arguments and its config
MainInit ==
    /\ PipeInit
    /\ W = 1
    /\ EncOff
    /\ argv_devices \in SeqsOf(DeviceNames, 1, MaxDevArgs)
    /\ cfg_styles \in SeqsOf(1 .. MaxPaths, 0, MaxStyles)
    /\ style_runners = {}
    /\ style_device_map = EmptyMap
    /\ style_i = 0
    /\ startpc = "runners"

\* for name, device in style_devices.items(): one runner created and loaded,
\* and the loop left after the last name
main_load_runner ==
    /\ startpc = "runners"
    /\ LET k == Cardinality(style_runners) IN
          IF k < Len(StyleDevices)
             THEN /\ style_runners' = style_runners \cup {StyleDevices[k + 1]}
                  /\ UNCHANGED startpc
             ELSE /\ startpc' = "styles"
                  /\ UNCHANGED style_runners
    /\ UNCHANGED <<pipeVars, encVars, argv_devices, cfg_styles, style_device_map, style_i>>

\* mutant of main_load_style: the map is bound anew for every style instead of
\* being given one more entry
main_load_style_rebinds ==
    /\ startpc = "styles"
    /\ IF style_i < Len(cfg_styles)
          THEN LET style_path == cfg_styles[style_i + 1]
                   style_tensor == LoadImageForStyle(style_path)
                   entry == [name \in SetOf(StyleDevices) |->
                               EncodeFrame(TorchDevice(name), style_tensor).frame]
               IN  /\ style_runners = SetOf(StyleDevices)
                   /\ style_device_map' = [p \in {style_path} |-> entry]
                   /\ style_i' = style_i + 1
                   /\ UNCHANGED startpc
          ELSE /\ startpc' = "done"
               /\ UNCHANGED <<style_device_map, style_i>>
    /\ UNCHANGED <<pipeVars, encVars, argv_devices, cfg_styles, style_runners>>

\* for style_path in style_config["styles"]: the style is loaded and encoded
\* by the runner of every name, and the loop left after the last style
main_load_style ==
    /\ startpc = "styles"
    /\ IF style_i < Len(cfg_styles)
          THEN LET style_path == cfg_styles[style_i + 1]
                   style_tensor == LoadImageForStyle(style_path)
                   entry == [name \in SetOf(StyleDevices) |->
                               EncodeFrame(TorchDevice(name), style_tensor).frame]
               IN  /\ style_runners = SetOf(StyleDevices)
                   /\ style_device_map' =
                         [p \in (DOMAIN style_device_map) \cup {style_path} |->
                             IF p = style_path THEN entry ELSE style_device_map[p]]
                   /\ style_i' = style_i + 1
                   /\ UNCHANGED startpc
          ELSE /\ startpc' = "done"
               /\ UNCHANGED <<style_device_map, style_i>>
    /\ UNCHANGED <<pipeVars, encVars, argv_devices, cfg_styles, style_runners>>

MainNext == main_load_runner \/ main_load_style

MainSpec == MainInit /\ [][MainNext]_vars

\* ------------------------------------------------------------------ measures
\* number of Halt items in a sequence
HaltCount(s) == Cardinality({i \in 1 .. Len(s) : s[i] = Halt})

\* position of the first Halt of s, Len(s) + 1 when there is none
FirstHalt(s) ==
    IF HaltCount(s) = 0 THEN Len(s) + 1
    ELSE CHOOSE i \in 1 .. Len(s) : s[i] = Halt /\ \A j \in 1 .. (i - 1) : s[j] # Halt

\* the jobs submitted ahead of the first Halt, in submission order
JobsBeforeHalt(s) == SubSeq(s, 1, FirstHalt(s) - 1)

\* of the first n items of s (numbered from 0), those whose number is w modulo W
Lane(s, w, n) ==
    [k \in 1 .. Cardinality({i \in 0 .. (n - 1) : i % W = w}) |-> s[(k - 1) * W + w + 1]]

\* number of times x occurs in s
Occurrences(s, x) == Cardinality({i \in 1 .. Len(s) : s[i] = x})

\* x occurs in s and no y occurs at or ahead of its first occurrence
Precedes(s, x, y) ==
    \E i \in 1 .. Len(s) : s[i] = x /\ \A j \in 1 .. i : s[j] # y

\* items a worker has taken off its input queue
Dequeued(w) == Len(inHist[w]) - Len(thread_input_queues[w])

\* jobs a worker has taken whose result is not yet on its output queue
InFlight(w) == Dequeued(w) - Len(outHist[w])


\* position of the first malformed job of s, Len(s) + 1 when there is none
FirstBad(s) ==
    IF \A i \in 1 .. Len(s) : s[i].kind # "bad" THEN Len(s) + 1
    ELSE CHOOSE i \in 1 .. Len(s) :
            s[i].kind = "bad" /\ \A j \in 1 .. (i - 1) : s[j].kind # "bad"


\* jobs the dispatcher has handed to workers so far
Dispatched ==
    Len(submitted) - Len(input_queue) - (IF pushpc = "done" THEN 1 ELSE 0)

\* every worker thread has ended or is polling an empty input queue
WorkersAtRest ==
    \A w \in Workers :
        \/ wpc[w] \in {"done", "dead"}
        \/ wpc[w] = "idle" /\ thread_input_queues[w] = << >>

\* a worker thread has died of an exception raised by apply
SomeWorkerDead == \E w \in Workers : wpc[w] = "dead"

\* the dispatcher has taken a Halt and ended, every worker has ended or is
\* polling an empty input queue, and the collector has ended: from here on no
\* thread but the caller changes anything, whatever is submitted
PipelineIdle ==
    /\ pushpc = "done"
    /\ \A w \in Workers :
          \/ wpc[w] \in {"done", "dead"}
          \/ wpc[w] = "idle" /\ thread_input_queues[w] = << >>
    /\ pullpc \in {"done", "crashed"}

\* a step of the calling thread
CallerStep == join_push \/ join_runner \/ join_pull

\* ------------------------------------------------------------------ claims

\* C1: the dispatcher puts the i-th job submitted ahead of the first Halt
\* (i from 0), unchanged, on the input queue of worker i mod W: at every moment
\* the worker input queues have received exactly the lanes of a prefix of those
\* jobs, and the whole of them once the dispatcher has taken the Halt.
C1_RoundRobinAssignment ==
    LET pre == JobsBeforeHalt(submitted) IN
    \E n \in 0 .. Len(pre) :
        /\ \A w \in Workers : inHist[w] = Lane(pre, w, n)
        /\ pushpc = "done" => n = Len(pre)

\* C1 witness: with two or more workers the rotation has wrapped around and the
\* dispatcher has taken the Halt.
C1_Witness ==
    /\ W >= 2
    /\ pushpc = "done"
    /\ Len(inHist[0]) >= 2
    /\ Len(inHist[W - 1]) >= 1

\* C2: a Halt taken from the shared input queue yields exactly one Halt on each
\* worker output queue (every worker alive): once the pipeline has come to
\* rest after the Halt, each worker output queue has received exactly one.
C2_HaltOnEveryWorkerOutput ==
    PipelineIdle =>
        (SomeWorkerDead \/ \A w \in Workers : HaltCount(outHist[w]) = 1)

\* C3: once the dispatcher has taken a Halt, nothing submitted behind it has
\* been assigned to a worker and every worker input queue has received exactly
\* one Halt.
C3_HaltFansOut ==
    pushpc = "done" =>
        /\ \A w \in Workers : \A i \in 1 .. Len(inHist[w]) :
              inHist[w][i] = Halt \/ inHist[w][i].id < FirstHalt(submitted)
        /\ \A w \in Workers : HaltCount(inHist[w]) = 1

\* C5: after a Halt (every worker alive) the dispatcher, every worker and the
\* collector end and round_robin_model_runners returns: the caller is never
\* left blocked in a join once the pipeline has come to rest.
C5_Returns ==
    (PipelineIdle /\ ~ENABLED CallerStep) =>
        (SomeWorkerDead \/ mainpc = "returned")

\* C6: the shared output queue only ever holds results of submitted jobs, and
\* once the pipeline has come to rest after the Halt (every worker alive) each
\* well-formed job submitted ahead of the Halt has exactly one result there.
C6_EveryJobOneResult ==
    /\ \A k \in 1 .. Len(outAll) :
          \E i \in 1 .. Len(submitted) :
              submitted[i].kind = "ok" /\ outAll[k] = Apply(submitted[i])
    /\ PipelineIdle =>
          \/ SomeWorkerDead
          \/ \A i \in 1 .. (FirstHalt(submitted) - 1) :
                submitted[i].kind = "ok" =>
                    Occurrences(outAll, Apply(submitted[i])) = 1

\* C7: each worker has at most one job in flight: the jobs it has taken off its
\* input queue exceed the results on its output queue by at most one, and by
\* one only while it is applying that job (or has died applying it).
C7_AtMostOneInFlight ==
    \A w \in Workers :
        /\ InFlight(w) \in {0, 1}
        /\ InFlight(w) = 1 <=> wpc[w] \in {"running", "dead"}

\* C7 witness: a worker is applying its second job, a third one waits on its
\* input queue and the result of the first is on its output queue.
C7_Witness ==
    \E w \in Workers :
        /\ wpc[w] = "running"
        /\ Len(outHist[w]) = 1
        /\ Len(thread_input_queues[w]) >= 1

\* C8: on every worker input queue and worker output queue a Halt is enqueued
\* at most once and nothing is enqueued after it.
C8_HaltAtMostOnceAndLast ==
    \A w \in Workers :
        /\ HaltCount(inHist[w]) <= 1
        /\ HaltCount(outHist[w]) <= 1
        /\ \A i \in 1 .. Len(inHist[w]) : inHist[w][i] = Halt => i = Len(inHist[w])
        /\ \A i \in 1 .. Len(outHist[w]) : outHist[w][i] = Halt => i = Len(outHist[w])

\* C8 witness: two Halts and a job behind the first were submitted, the
\* dispatcher has taken the first Halt, and a worker has been handed a job and
\* has put its result.
C8_Witness ==
    /\ HaltCount(submitted) = 2
    /\ FirstHalt(submitted) < Len(submitted)
    /\ pushpc = "done"
    /\ \E w \in Workers : Len(inHist[w]) >= 1 /\ Len(outHist[w]) >= 1

\* C9: with one worker and two well-formed jobs J1 then J2 submitted ahead of
\* the Halt, once the pipeline has come to rest the result of J1 is on the
\* shared output queue, ahead of any result of J2.
C9_SingleWorkerInOrder ==
    (/\ W = 1
     /\ PipelineIdle
     /\ FirstHalt(submitted) > 2
     /\ submitted[1].kind = "ok"
     /\ submitted[2].kind = "ok")
        => Precedes(outAll, Apply(submitted[1]), Apply(submitted[2]))

\* C10: with two workers, when worker 1 has completed its job while worker 0
\* is still applying its own, the result of worker 1 becomes the first item of
\* the shared output queue.
C10_CompletionOrder ==
    (/\ W = 2
     /\ outHist[0] = << >>
     /\ wpc[0] = "running"
     /\ wjob[0].kind = "ok"
     /\ Len(outHist[1]) = 1)
        ~> (outAll # << >> /\ outAll[1] = outHist[1][1])

\* C11: a worker whose apply never returns stalls only its own lane: while
\* worker 0 is stuck in apply, a result another worker has put on its output
\* queue still reaches the shared output queue, and a job waiting on another
\* worker's input queue is still taken by that worker.
C11_StuckWorkerStallsOnlyItsLane ==
    /\ (/\ W >= 2
        /\ wpc[0] = "running"
        /\ Len(outHist[1]) >= 1)
          ~> \/ wpc[0] # "running"
             \/ W >= 2 /\ Len(outHist[1]) >= 1
                       /\ Occurrences(outAll, outHist[1][1]) >= 1
    /\ (/\ W >= 2
        /\ wpc[0] = "running"
        /\ Len(inHist[1]) >= 1)
          ~> \/ wpc[0] # "running"
             \/ W >= 2 /\ Dequeued(1) >= 1

\* C12: a worker that takes a malformed job takes nothing after it and puts
\* no result for it: a worker never takes an item from behind the first
\* malformed job on its input queue, its results stop short of that job, and
\* it is dead exactly when it has taken that job and apply has raised.
C12_BadJobEndsWorker ==
    \A w \in Workers :
        LET fb == FirstBad(inHist[w]) IN
        /\ Dequeued(w) <= fb
        /\ Len(outHist[w]) < fb
        /\ \A k \in 1 .. Len(outHist[w]) :
              fb <= Len(inHist[w]) => outHist[w][k].id # inHist[w][fb].id
        /\ wpc[w] = "dead" => (Dequeued(w) = fb /\ wjob[w] = inHist[w][fb])
        /\ (Dequeued(w) = fb /\ fb <= Len(inHist[w])) => wpc[w] \in {"running", "dead"}

\* C12 witness: a worker has put one result, has died on its second job, and
\* a third job waits on its input queue.
C12_Witness ==
    \E w \in Workers :
        /\ wpc[w] = "dead"
        /\ Len(outHist[w]) = 1
        /\ Len(thread_input_queues[w]) >= 1

\* C18: the collector polls the queue at its rotation index and advances only
\* after forwarding a result: the k-th result on the shared output queue (k
\* from 0) is the next result of worker k mod W, and the collector never stops
\* while a result waits on the queue at its rotation index.
C18_CollectorRoundRobin ==
    /\ \A k \in 1 .. Len(outAll) :
          LET w == (k - 1) % W
              n == ((k - 1) \div W) + 1
          IN  n <= Len(outHist[w]) /\ outAll[k] = outHist[w][n]
    /\ (pullpc \in {"done", "crashed"} /\ WorkersAtRest) =>
          \/ qs = << >>
          \/ thread_output_queues[qs[pull_idx + 1]] = << >>

\* C19: each worker finishes what it was assigned, in the order assigned,
\* before it forwards a Halt: the k-th item on its output queue is the result
\* of the k-th job put on its input queue, and a Halt on its output queue is
\* the last item there and stands at the position the Halt had on its input
\* queue.
C19_WorkerFinishesInOrder ==
    \A w \in Workers :
        /\ Len(outHist[w]) <= Len(inHist[w])
        /\ \A k \in 1 .. Len(outHist[w]) :
              k <= Len(inHist[w]) =>
                  IF outHist[w][k] = Halt
                     THEN inHist[w][k] = Halt /\ k = Len(outHist[w])
                     ELSE outHist[w][k] = Apply(inHist[w][k])

\* C19 witness: a worker was assigned two jobs and has put both results.
C19_Witness ==
    \E w \in Workers :
        /\ Len(inHist[w]) = 2
        /\ Len(outHist[w]) = 2
        /\ wpc[w] = "idle"

\* C20: after a worker has died the dispatcher goes on assigning job i to
\* worker i mod W, the dead worker included; a dead worker stays dead, takes
\* nothing more and puts nothing more; every live worker keeps applying what
\* it is assigned.
C20_DeadWorkerStillAssigned ==
    /\ [][\A w \in Workers :
            inHist'[w] # inHist[w] =>
                (w = Dispatched % W /\ inHist'[w] = Append(inHist[w], Head(input_queue)))]_vars
    /\ [][\A w \in Workers :
            wpc[w] = "dead" =>
                /\ wpc'[w] = "dead"
                /\ outHist'[w] = outHist[w]
                /\ Len(thread_input_queues'[w]) >= Len(thread_input_queues[w])]_vars
    /\ \A w \in 0 .. (MaxW - 1) :
          []<>(w \in Workers =>
                  (wpc[w] \in {"dead", "done"} \/ Len(outHist[w]) = Len(inHist[w])))

\* C20 witness: worker 0 has died, a job routed to it waits on its input queue,
\* and worker 1 has put the result of a job.
C20_Witness ==
    /\ W >= 2
    /\ wpc[0] = "dead"
    /\ Len(thread_input_queues[0]) >= 1
    /\ Len(outHist[1]) >= 1

\* C13: encode_frame on an EncodedFrame already tagged for the runner's device
\* returns that same value and invokes no encoder stage, so encoding the
\* result of encode_frame again on the same runner gives that result back.
C13_TaggedFrameReturnedAsIs ==
    /\ [][(IsEncodedFrame(enc_source') /\ enc_source'.e4.device = enc_device') =>
              (enc_result' = enc_source' /\ enc_calls' = enc_calls)]_vars
    /\ [](enc_pc = "returned" =>
              EncodeFrame(enc_device, enc_result) = [frame |-> enc_result, calls |-> 0])

\* C13 witness: after the encoder stages have run for some raw tensor, the
\* runner was handed an EncodedFrame of its own device.
C13_Witness ==
    /\ enc_pc = "returned"
    /\ IsEncodedFrame(enc_source)
    /\ enc_source.e4.device = enc_device
    /\ enc_calls >= 2

C15_KEntries ==
    startpc = "done" =>
        /\ Cardinality(DOMAIN style_device_map) = Len(cfg_styles)
        /\ \A p \in DOMAIN style_device_map :
              /\ DOMAIN style_device_map[p] = SetOf(argv_devices)
              /\ \A n \in SetOf(argv_devices) :
                    style_device_map[p][n].e4.device = TorchDevice(n)

\* C15 as amended: after startup the style cache map has exactly one entry
\* for every distinct style path of the config (K entries when the K paths
\* are distinct), each with exactly one representation for every configured
\* device name, tagged for that device and encoded from that path's image.
C15_OneEntryPerDistinctPath ==
    startpc = "done" =>
        /\ DOMAIN style_device_map = SetOf(cfg_styles)
        /\ Cardinality(DOMAIN style_device_map) = Cardinality(SetOf(cfg_styles))
        /\ \A p \in DOMAIN style_device_map :
              /\ DOMAIN style_device_map[p] = SetOf(argv_devices)
              /\ \A n \in SetOf(argv_devices) :
                    /\ style_device_map[p][n].e4.device = TorchDevice(n)
                    /\ style_device_map[p][n].e5.device = TorchDevice(n)
                    /\ style_device_map[p][n].e4.data = p

\* C15 witness: startup has finished for a config that repeats a path and
\* names two distinct paths, with two device names.
C15_Witness ==
    /\ startpc = "done"
    /\ Len(cfg_styles) = 3
    /\ Cardinality(SetOf(cfg_styles)) = 2
    /\ Cardinality(SetOf(argv_devices)) = 2
    /\ Cardinality(DOMAIN style_device_map) = 2

\* C21: once a worker has died on a malformed job shutdown never completes:
\* that worker puts no Halt on its output queue, the working set of the
\* collector does not become empty, the collector does not leave its loop,
\* and round_robin_model_runners does not return, whatever is submitted.
C21_ShutdownNeverCompletes ==
    SomeWorkerDead =>
        /\ \A w \in Workers : wpc[w] = "dead" => HaltCount(outHist[w]) = 0
        /\ pullpc # "start" => qs # << >>
        /\ pullpc # "done"
        /\ mainpc # "returned"

\* C22: an empty poll is a no-op in all three loops: a step taken while a
\* worker polls its empty input queue leaves that worker's position, job and
\* output queue as they are; a step taken while the dispatcher polls the empty
\* shared input queue leaves its position and its rotation index as they are
\* and puts nothing on a worker input queue; a step taken while the collector
\* polls the empty queue at its rotation index leaves its position, its
\* rotation index, its working set and the shared output queue as they are.
C22_EmptyPollIsNoOp ==
    [][/\ \A w \in Workers :
             (wpc[w] = "idle" /\ thread_input_queues[w] = << >>) =>
                 /\ wpc'[w] = wpc[w]
                 /\ wjob'[w] = wjob[w]
                 /\ thread_output_queues'[w] = thread_output_queues[w]
                 /\ outHist'[w] = outHist[w]
       /\ (pushpc = "run" /\ input_queue = << >>) =>
             /\ pushpc' = pushpc
             /\ push_idx' = push_idx
             /\ inHist' = inHist
       /\ (/\ pullpc = "loop"
           /\ qs # << >>
           /\ thread_output_queues[qs[pull_idx + 1]] = << >>) =>
             /\ pullpc' = pullpc
             /\ pull_idx' = pull_idx
             /\ qs' = qs
             /\ output_queue' = output_queue
             /\ outAll' = outAll]_vars

====
